---- MODULE Spec2Model ----
(***************************************************************************)
(* Model of the walk-forward backtester of MLTrade (src/backtesting.py,    *)
(* class Backtester): the period list built by splitTrainTest, the         *)
(* training loop of testModels with its shared scaler and the per-model    *)
(* prediction lists, and the return / classification metrics of the        *)
(* reports.                                                                *)
(***************************************************************************)
EXTENDS Integers, Sequences, FiniteSets, TLC

\* ------------------------------------------------------------------ bounds
\* Positions of the dataset run over 0..MaxIndex (a dataset of MaxIndex rows).
MaxIndex == 6
\* Largest train_start and train_end offered to the rolling-only scenario.
MaxTrainStart == 1
MaxTrainEnd == 2
\* Positions offered to by_index in the scenario that mixes single and rolling
\* splits: 0..MaxSplitIndex.
MaxSplitIndex == 3
\* Test-window lengths offered to the rolling split: -1..MaxWindow
\* (-1 is the parameter's default).
MaxWindow == 2
\* Iterations of the rolling loop that are followed when the loop cannot end.
MaxLoop == 3
\* Calls of splitTrainTest per run, in the rolling-only and the full scenario.
MaxRollingCalls == 1
MaxSplitCalls == 2
\* Calls per run in the training scenario: splitTrainTest, addModels, testModels.
MaxTestSplits == 2
MaxAdds == 1
MaxTests == 2
\* Longest return / prediction sequence handed to __calcCR.
MaxLen == 3
\* Most rows of the evaluation span in the reporting scenario, and its calls
\* of calcPerformanceMetrics.
MaxSpan == 3
MaxReports == 1

None == [none |-> TRUE]
Indices == 0..MaxIndex
Windows == (-1)..MaxWindow
NoFrame == [mode |-> "none"]
NoData == [row \in {} |-> 0]
Unfit == [fit |-> "unfit"]
NotScaled == [train_by |-> Unfit, test_by |-> Unfit, period |-> NoFrame]

VARIABLES
    backtest_periods,   \* self.backtest_periods: list of {'Train': (a,b), 'Test': (c,d)}
    pc,                 \* position of the running handler ("idle" when none runs)
    split,              \* locals of a running splitTrainTest (rolling mode)
    err,                \* exception raised by the last handler, "none" if it returned
    callsLeft,          \* splitTrainTest calls the caller still issues
    models,             \* self.models: name -> model (scaling, estimator, predictions)
    history,            \* per registered model, the arrays its grid searches returned, in order
    scaler,             \* the StandardScaler of a running testModels: the rows it was last fit on
    scaled,             \* the last scaled period, and the scaler that transformed its train / test rows
    tm,                 \* locals of a running testModels
    entry,              \* the last testModels call: its model_names and self.models on entry
    addsLeft,           \* addModels calls the caller still issues
    testsLeft,          \* testModels calls the caller still issues
    y,                  \* self.y: the label of each row (the rows the reports read)
    returns,            \* self.returns: the realized return of each such row
    report,             \* the tables of the last calcPerformanceMetrics
    reportsLeft,        \* calcPerformanceMetrics calls the caller still issues
    cr                  \* an application of __calcCR: its arguments and its result

testVars == <<models, history, scaler, scaled, tm, entry, addsLeft, testsLeft>>
dataVars == <<y, returns, report, reportsLeft, cr>>
otherVars == <<testVars, dataVars>>
vars == <<backtest_periods, pc, split, err, callsLeft, testVars, dataVars>>

\* ------------------------------------------------------- splitTrainTest
\* The dataset's date index: date d labels position d-1; any other date is
\* absent from the index.
HasDate(d) == d \in 1..MaxIndex
get_loc(d) == d - 1

Period(trs, tre, tes, tee) == [Train |-> <<trs, tre>>, Test |-> <<tes, tee>>]

SplitIndices == 0..MaxSplitIndex
IndexSpecs == {Period(a, b, c, d) : a \in SplitIndices, b \in SplitIndices,
                                    c \in SplitIndices, d \in SplitIndices}
\* rolling mode never reads Test[0]
RollingSpecs == {Period(a, b, b, d) : a \in 0..MaxTrainStart, b \in 0..MaxTrainEnd, d \in Indices}
DateSpecs == {Period(a, b, c, d) : a \in {0, 1}, b \in {1, 2}, c \in {2, 3},
                                   d \in {MaxIndex, MaxIndex + 1}}
\* The calls offered in the mixed scenario: by_index alone (single, or rolling
\* with each window), by_date alone, both (by_date wins), and neither.
SplitCalls ==
    {<<bi, None, TRUE, -1>> : bi \in IndexSpecs}
    \cup {<<bi, None, FALSE, w>> : bi \in {x \in IndexSpecs : x.Test[1] = x.Train[2]}, w \in Windows}
    \cup {<<None, bd, s, 1>> : bd \in DateSpecs, s \in BOOLEAN}
    \cup {<<Period(0, 1, 1, 2), bd, TRUE, -1>> : bd \in DateSpecs}
    \cup {<<None, None, s, -1>> : s \in BOOLEAN}

\* lines 238-248: the bounds as resolved from by_index, then overridden by by_date.
DatesFound(by_date) ==
    /\ HasDate(by_date.Train[1]) /\ HasDate(by_date.Train[2])
    /\ HasDate(by_date.Test[1]) /\ HasDate(by_date.Test[2])

Resolve(by_index, by_date) ==
    IF by_date # None
    THEN Period(get_loc(by_date.Train[1]), get_loc(by_date.Train[2]) + 1,
                get_loc(by_date.Test[1]), get_loc(by_date.Test[2]) + 1)
    ELSE by_index

\* The loop test with a strict comparison, which drops a last window that
\* ends exactly at test_end.
RollingCondStrict(f) == f.i + f.training_days + f.window < f.test_end

\* line 257: the loop test of the rolling split.
RollingCond(f) == f.i + f.training_days + f.window <= f.test_end

\* line 258: the period appended by one iteration.
RollingPeriod(f) ==
    Period(f.i, f.i + f.training_days, f.i + f.training_days, f.i + f.training_days + f.window)

\* line 260
RollingAdvance(f) == f.i + f.window

\* lines 235-255: entry of splitTrainTest up to the single append or the loop head.
SplitTrainTest(by_index, by_date, single_split, window) ==
    /\ pc = "idle"
    /\ callsLeft > 0
    /\ callsLeft' = callsLeft - 1
    /\ IF by_date # None /\ ~DatesFound(by_date)
       THEN /\ err' = "KeyError"
            /\ UNCHANGED <<backtest_periods, pc, split, otherVars>>
       ELSE IF by_index = None /\ by_date = None
       THEN /\ err' = "UnboundLocalError"
            /\ UNCHANGED <<backtest_periods, pc, split, otherVars>>
       ELSE LET b == Resolve(by_index, by_date) IN
            IF single_split
            THEN /\ backtest_periods' = Append(backtest_periods, b)
                 /\ err' = "none"
                 /\ UNCHANGED <<pc, split, otherVars>>
            ELSE /\ split' = [mode |-> "rolling",
                              train_start |-> b.Train[1],
                              i |-> b.Train[1],
                              training_days |-> b.Train[2] - b.Train[1],
                              window |-> window,
                              test_end |-> b.Test[2],
                              base |-> Len(backtest_periods)]
                 /\ pc' = "rolling"
                 /\ err' = "none"
                 /\ UNCHANGED <<backtest_periods, otherVars>>

\* lines 257-260: one iteration of the while loop.  A loop that cannot end
\* (window <= 0) is followed for MaxLoop iterations.
RollingStep ==
    /\ pc = "rolling"
    /\ RollingCond(split)
    /\ split.window > 0 \/ Len(backtest_periods) - split.base < MaxLoop
    /\ backtest_periods' = Append(backtest_periods, RollingPeriod(split))
    /\ split' = [split EXCEPT !.i = RollingAdvance(split)]
    /\ UNCHANGED <<pc, err, callsLeft, otherVars>>

\* line 257: the loop test fails and splitTrainTest returns.
RollingReturn ==
    /\ pc = "rolling"
    /\ ~RollingCond(split)
    /\ pc' = "idle"
    /\ split' = NoFrame
    /\ UNCHANGED <<backtest_periods, err, callsLeft, otherVars>>

\* ------------------------------------------------------------ testModels
\* line 32: rows [0, 950) of every training range train the candidates, the
\* rows from 950 on are the validation fold.
ValidationFold == 950

Labels == {-1, 1}

\* len(X[a:b]) for positions inside the dataset
SliceLen(r) == IF r[2] > r[1] THEN r[2] - r[1] ELSE 0

\* Items of a model's predictions list: an array returned by predict, or a
\* scalar label (what itertools.chain leaves behind).
Arr(a) == [k |-> "arr", v |-> a]
Num(x) == [k |-> "num", v |-> x]

\* A model as registered: the scaling flag it was built with, its own
\* estimator, no predictions yet.
NewModel(scaling) == [scaling |-> scaling, estimator |-> "initial", predictions |-> <<>>]

\* lines 231-233.  ms maps the names of the models of the list to their scaling flags.
AddModels(ms) ==
    /\ pc = "idle"
    /\ addsLeft > 0
    /\ addsLeft' = addsLeft - 1
    /\ models' = [n \in DOMAIN models \cup DOMAIN ms |->
                    IF n \in DOMAIN ms THEN NewModel(ms[n]) ELSE models[n]]
    /\ history' = [n \in DOMAIN models \cup DOMAIN ms |->
                    IF n \in DOMAIN ms THEN <<>> ELSE history[n]]
    /\ err' = "none"
    /\ UNCHANGED <<backtest_periods, pc, split, callsLeft, scaler, scaled, tm, entry, testsLeft>>
    /\ UNCHANGED dataVars

\* StandardScaler.fit_transform(rows): the statistics are recomputed from rows,
\* whatever the scaler was fit on before, and rows are transformed with them.
fit_transform(sc, rows) == [fit |-> rows]

\* lines 31-37: the grid search has a validation fold only when the training
\* range holds more than 950 rows (otherwise PredefinedSplit yields no split
\* and GridSearchCV.fit raises); predict needs at least one test row.
GridSearchFits(P) == SliceLen(P.Train) > ValidationFold /\ SliceLen(P.Test) > 0

\* lines 262-267: entry of testModels.
TestModels(model_names) ==
    /\ pc = "idle"
    /\ testsLeft > 0
    /\ testsLeft' = testsLeft - 1
    /\ scaler' = Unfit
    /\ scaled' = NotScaled
    /\ entry' = [mode |-> "testModels", model_names |-> model_names, models |-> models]
    /\ tm' = [mode |-> "testModels", model_names |-> model_names, p |-> 1, n |-> 1]
    /\ pc' = IF Len(backtest_periods) = 0 THEN "flatten" ELSE "training"
    /\ err' = "none"
    /\ UNCHANGED <<backtest_periods, split, callsLeft, models, history, addsLeft>>
    /\ UNCHANGED dataVars

\* lines 269-292: one pass of the inner loop, for period tm.p and name tm.n.
TrainStep ==
    /\ pc = "training"
    /\ LET P == backtest_periods[tm.p]
           name == tm.model_names[tm.n]
           lastName == tm.n = Len(tm.model_names)
           lastPeriod == tm.p = Len(backtest_periods)
       IN  IF name \notin DOMAIN models
           THEN \* line 280: self.models[name]
                /\ err' = "KeyError"
                /\ pc' = "idle"
                /\ tm' = NoFrame
                /\ UNCHANGED <<models, history, scaler, scaled>>
           ELSE LET s1 == fit_transform(scaler, P.Train)
                    s2 == fit_transform(s1, P.Test)
                    sc == models[name].scaling
                IN  \* line 283: both arguments are evaluated before the call
                    /\ scaler' = IF sc THEN s2 ELSE scaler
                    /\ scaled' = IF sc THEN [train_by |-> s1, test_by |-> s2, period |-> P]
                                       ELSE NotScaled
                    /\ IF ~GridSearchFits(P)
                       THEN /\ err' = "ValueError"
                            /\ pc' = "idle"
                            /\ tm' = NoFrame
                            /\ UNCHANGED <<models, history>>
                       ELSE \E a \in [1..SliceLen(P.Test) -> Labels] :
                            \* lines 39-43 and 287
                            /\ models' = [models EXCEPT
                                            ![name].estimator = "tuned",
                                            ![name].predictions = Append(@, Arr(a))]
                            /\ history' = [history EXCEPT ![name] = Append(@, a)]
                            /\ tm' = IF lastName
                                     THEN [tm EXCEPT !.p = @ + 1, !.n = 1]
                                     ELSE [tm EXCEPT !.n = @ + 1]
                            /\ pc' = IF lastName /\ lastPeriod THEN "flatten" ELSE "training"
                            /\ UNCHANGED err
    /\ UNCHANGED <<backtest_periods, split, callsLeft, entry, addsLeft, testsLeft>>
    /\ UNCHANGED dataVars

\* itertools.chain.from_iterable over a list of arrays
RECURSIVE Chain(_)
Chain(items) ==
    IF items = <<>> THEN <<>>
    ELSE [j \in 1..Len(Head(items).v) |-> Num(Head(items).v[j])] \o Chain(Tail(items))

\* lines 294-298 from the k-th name on: the models afterwards and the exception
\* raised, if any.  A scalar item is not iterable: chain raises TypeError and
\* the model keeps its list.
RECURSIVE FlattenFrom(_, _, _)
FlattenFrom(ms, names, k) ==
    IF k > Len(names) THEN [models |-> ms, err |-> "none"]
    ELSE IF names[k] \notin DOMAIN ms THEN [models |-> ms, err |-> "KeyError"]
    ELSE IF \E j \in 1..Len(ms[names[k]].predictions) : ms[names[k]].predictions[j].k = "num"
         THEN [models |-> ms, err |-> "TypeError"]
    ELSE FlattenFrom([ms EXCEPT ![names[k]].predictions = Chain(@)], names, k + 1)

\* lines 294-298: the closing loop of testModels, and its return.
TestFlatten ==
    /\ pc = "flatten"
    /\ LET r == FlattenFrom(models, tm.model_names, 1)
       IN  /\ models' = r.models
           /\ err' = r.err
    /\ pc' = "idle"
    /\ tm' = NoFrame
    /\ UNCHANGED <<backtest_periods, split, callsLeft, history, scaler, scaled, entry,
                   addsLeft, testsLeft>>
    /\ UNCHANGED dataVars

\* ------------------------------------------------------ return metrics
\* Real numbers are exact fractions <<numerator, denominator>> in lowest terms,
\* the denominator positive.
Abs(n) == IF n < 0 THEN -n ELSE n

RECURSIVE GCD(_, _)
GCD(a, b) == IF b = 0 THEN a ELSE GCD(b, a % b)

QNorm(n, d) == LET g == GCD(Abs(n), d) IN <<n \div g, d \div g>>
QZero == <<0, 1>>
QOne == <<1, 1>>
QAdd(a, b) == QNorm(a[1] * b[2] + b[1] * a[2], a[2] * b[2])
QSub(a, b) == QNorm(a[1] * b[2] - b[1] * a[2], a[2] * b[2])
QMul(a, b) == QNorm(a[1] * b[1], a[2] * b[2])
QInt(n) == <<n, 1>>

Last(seq) == seq[Len(seq)]
MinOf(a, b) == IF a < b THEN a ELSE b

\* The running value with every step compounding, whatever the prediction.
CRNextAlways(cum, r, p) == Append(cum, QMul(Last(cum), QAdd(QOne, r)))

\* lines 83-91: the running list after one (return, prediction) pair.
CRNext(cum, r, p) ==
    IF p = 1 THEN Append(cum, QMul(Last(cum), QAdd(QOne, r)))
    ELSE IF p = -1 THEN Append(cum, Last(cum))
    ELSE cum

\* lines 75-91: the loop over zip(returns, predictions), from pair k on.
RECURSIVE CRLoop(_, _, _, _)
CRLoop(cum, rs, ps, k) ==
    IF k > MinOf(Len(rs), Len(ps)) THEN cum
    ELSE CRLoop(CRNext(cum, rs[k], ps[k]), rs, ps, k + 1)

\* lines 74-93: __calcCR, the running product minus 1.
calcCR(rs, ps) ==
    LET cum == CRLoop(<<QOne>>, rs, ps, 1)
    IN  [j \in 1..Len(cum) |-> QSub(cum[j], QOne)]

\* The application of __calcCR to one pair of sequences.
ApplyCR ==
    /\ cr.mode = "args"
    /\ cr' = [mode |-> "done", returns |-> cr.returns, predictions |-> cr.predictions,
              out |-> calcCR(cr.returns, cr.predictions)]
    /\ UNCHANGED <<backtest_periods, pc, split, err, callsLeft, testVars,
                   y, returns, report, reportsLeft>>

\* lines 115-116, 142-143, 172-173, 305-306: the span the reports slice with.
ReportSpan == <<backtest_periods[1].Test[1], backtest_periods[Len(backtest_periods)].Test[2]>>

\* lines 57-72: __calcDailyReturns, from pair k on.
RECURSIVE DailyLoop(_, _, _, _)
DailyLoop(daily, rs, ps, k) ==
    IF k > MinOf(Len(rs), Len(ps)) THEN daily
    ELSE IF ps[k] = 1 THEN DailyLoop(Append(daily, rs[k]), rs, ps, k + 1)
    ELSE IF ps[k] = -1 THEN DailyLoop(Append(daily, QZero), rs, ps, k + 1)
    ELSE DailyLoop(daily, rs, ps, k + 1)

calcDailyReturns(rs, ps) == DailyLoop(<<QZero>>, rs, ps, 1)

RECURSIVE QSum(_)
QSum(seq) == IF seq = <<>> THEN QZero ELSE QAdd(Head(seq), QSum(Tail(seq)))

\* line 97: 252 trading days a year
TradingDays == 252

\* lines 95-99: __calcAR.  The power is kept as its base and exponent:
\* the value is base^(exp[1]/exp[2]) - 1, zero exactly when base = 1.
calcAR(cumulative_return, N) ==
    [base |-> QAdd(QOne, cumulative_return), exp |-> <<TradingDays, N>>]

\* lines 101-106: __calcAV.  The volatility is kept as its square: the sample
\* variance (pandas std, n - 1 in the denominator) of the daily returns times
\* 252; pandas gives NaN for fewer than two values.
calcAV(rs, ps) ==
    LET d == calcDailyReturns(rs, ps)
        n == Len(d)
        sum == QSum(d)
        squares == QSum([j \in 1..n |-> QMul(d[j], d[j])])
        spread == QSub(QMul(QInt(n), squares), QMul(sum, sum))
    IN  IF n < 2 THEN [sq |-> <<0, 0>>]
        ELSE [sq |-> QMul(QInt(TradingDays), QMul(spread, <<1, n * (n - 1)>>))]

Sentinels == {"nan", "inf", "-inf"}

\* A Sharpe ratio that answers zero volatility with a plain 0.
SharpeRatioGuarded(ar, av) ==
    IF av.sq = QZero THEN [kind |-> "finite", value |-> QZero]
    ELSE [kind |-> "ratio", num |-> ar, den |-> av]

\* line 193: annualized_return is a numpy float64 (np.power of line 97), so the
\* division by a zero float yields nan (0/0) or a signed infinity and does not raise.
SharpeRatio(ar, av) ==
    IF av.sq = QZero
    THEN IF ar.base = QOne THEN [kind |-> "nan"]
         ELSE IF ar.base[1] > ar.base[2] THEN [kind |-> "inf"] ELSE [kind |-> "-inf"]
    ELSE [kind |-> "ratio", num |-> ar, den |-> av]

\* The Sharpe ratio of a model row (model.calcSharpeRatio, line 154):
\* annualized return over annualized volatility, NaN when the volatility is zero.
ModelSharpeRatio(ar, av) ==
    IF av.sq = QZero THEN [kind |-> "nan"]
    ELSE [kind |-> "ratio", num |-> ar, den |-> av]

\* ------------------------------------------------ classification metrics
\* sklearn.metrics, binary labels with positive label 1; a ratio with a zero
\* denominator is reported as 0.
Pos(seq) == Cardinality({j \in 1..Len(seq) : seq[j] = 1})
TruePos(y_true, y_pred) == Cardinality({j \in 1..Len(y_true) : y_true[j] = 1 /\ y_pred[j] = 1})
Ratio(n, d) == IF d = 0 THEN QZero ELSE QNorm(n, d)

accuracy_score(y_true, y_pred) ==
    Ratio(Cardinality({j \in 1..Len(y_true) : y_true[j] = y_pred[j]}), Len(y_true))
precision_score(y_true, y_pred) == Ratio(TruePos(y_true, y_pred), Pos(y_pred))
recall_score(y_true, y_pred) == Ratio(TruePos(y_true, y_pred), Pos(y_true))
f1_score(y_true, y_pred) == Ratio(2 * TruePos(y_true, y_pred), Pos(y_true) + Pos(y_pred))

\* y[start:end] for positions inside the dataset
Slice(f, start, end) == [j \in 1..SliceLen(<<start, end>>) |-> f[start + j - 1]]

Ones(n) == [j \in 1..n |-> 1]

\* lines 175-195: the Buy and Hold row.
BenchmarkRow(ylab, rets) ==
    LET BnH_pred == Ones(Len(ylab))
        cumulative_return == calcCR(rets, Ones(Len(rets)))
        annualized_return == calcAR(Last(cumulative_return), Len(rets))
        annualized_volatiliy == calcAV(rets, Ones(Len(rets)))
    IN  [Accuracy |-> accuracy_score(ylab, BnH_pred),
         Precision |-> precision_score(ylab, BnH_pred),
         Recall |-> recall_score(ylab, BnH_pred),
         F1 |-> f1_score(ylab, BnH_pred),
         CR |-> Last(cumulative_return),
         AR |-> annualized_return,
         AV |-> annualized_volatiliy,
         SR |-> SharpeRatio(annualized_return, annualized_volatiliy)]

PredictionValues(m) == [j \in 1..Len(m.predictions) |-> m.predictions[j].v]

\* lines 122-129: a model's row of the prediction-error table.
ErrorRow(predictions, ylab) ==
    [Accuracy |-> accuracy_score(predictions, ylab),
     Precision |-> precision_score(predictions, ylab),
     Recall |-> recall_score(predictions, ylab),
     F1 |-> f1_score(predictions, ylab)]

\* lines 148-156: a model's row of the profitability table, computed by the
\* model's own calcCR, calcAR, calcAV and calcSharpeRatio.
ProfitRow(predictions, rets) ==
    LET cumulative_return == calcCR(rets, predictions)
        annualized_return == calcAR(Last(cumulative_return), Len(rets))
        annualized_volatiliy == calcAV(rets, predictions)
    IN  [CR |-> Last(cumulative_return),
         AR |-> annualized_return,
         AV |-> annualized_volatiliy,
         SR |-> ModelSharpeRatio(annualized_return, annualized_volatiliy)]

\* A model whose predictions the metrics can be computed from: a flat list of
\* labels, one per row of the span (sklearn raises ValueError otherwise).
Scorable(m, N) ==
    /\ \A j \in 1..Len(m.predictions) : m.predictions[j].k = "num"
    /\ Len(m.predictions) = N

Failed(names) == [mode |-> "failed", names |-> names]

\* lines 300-329: calcPerformanceMetrics.
CalcPerformanceMetrics(model_names) ==
    /\ pc = "idle"
    /\ reportsLeft > 0
    /\ reportsLeft' = reportsLeft - 1
    /\ IF Len(backtest_periods) = 0
       THEN \* line 305
            /\ err' = "IndexError"
            /\ report' = Failed(model_names)
       ELSE LET start == ReportSpan[1]
                end == ReportSpan[2]
                ylab == Slice(y, start, end)
                rets == Slice(returns, start, end)
                N == Len(rets)
            IN  IF N = 0
                THEN \* an empty span: at the latest 252 / N of line 97 raises
                     /\ err' = "ZeroDivisionError"
                     /\ report' = Failed(model_names)
                ELSE IF \E k \in 1..Len(model_names) : model_names[k] \notin DOMAIN models
                THEN \* line 121
                     /\ err' = "KeyError"
                     /\ report' = Failed(model_names)
                ELSE IF \E k \in 1..Len(model_names) : ~Scorable(models[model_names[k]], N)
                THEN /\ err' = "ValueError"
                     /\ report' = Failed(model_names)
                ELSE /\ report' =
                          [mode |-> "tables",
                           names |-> model_names,
                           benchmark |-> BenchmarkRow(ylab, rets),
                           errors |-> [k \in 1..Len(model_names) |->
                                         ErrorRow(PredictionValues(models[model_names[k]]), ylab)],
                           profit |-> [k \in 1..Len(model_names) |->
                                         ProfitRow(PredictionValues(models[model_names[k]]), rets)]]
                     \* line 329: the plot looks up 'Logistic Regression'
                     /\ err' = IF "Logistic Regression" \in DOMAIN models THEN "none" ELSE "KeyError"
    /\ UNCHANGED <<backtest_periods, pc, split, callsLeft, testVars, y, returns, cr>>

\* lines 21-28 (__init__), with the calls the scenario's caller will issue.
InitBacktester(splits, adds, tests) ==
    /\ backtest_periods = <<>>
    /\ models = [n \in {} |-> NoFrame]
    /\ pc = "idle"
    /\ split = NoFrame
    /\ err = "none"
    /\ callsLeft = splits
    /\ history = [n \in {} |-> <<>>]
    /\ scaler = Unfit
    /\ scaled = NotScaled
    /\ tm = NoFrame
    /\ entry = NoFrame
    /\ addsLeft = adds
    /\ testsLeft = tests

\* No dataset rows are read and no report is asked for.
NoReports ==
    /\ y = NoData
    /\ returns = NoData
    /\ report = NoFrame
    /\ reportsLeft = 0

InitWith(splits, adds, tests) ==
    /\ InitBacktester(splits, adds, tests)
    /\ NoReports
    /\ cr = NoFrame

InitRolling == InitWith(MaxRollingCalls, 0, 0)

NextRolling ==
    \/ \E bi \in RollingSpecs, w \in 1..MaxWindow : SplitTrainTest(bi, None, FALSE, w)
    \/ RollingStep
    \/ RollingReturn

SpecRolling == InitRolling /\ [][NextRolling]_vars

InitSplit == InitWith(MaxSplitCalls, 0, 0)

NextSplit ==
    \/ \E c \in SplitCalls : SplitTrainTest(c[1], c[2], c[3], c[4])
    \/ RollingStep
    \/ RollingReturn

SpecSplit == InitSplit /\ [][NextSplit]_vars

\* The training scenario: two registered names and one that never is; periods
\* whose training range reaches past the validation fold, and one that is too short.
LR == "Logistic Regression"
LDA == "LDA"
Voting == "Voting"

ModelLists == {[n \in {LR} |-> TRUE], [n \in {LR, LDA} |-> n = LR]}
NameLists == {<<LR>>, <<LDA>>, <<LR, LDA>>, <<LR, Voting>>, <<Voting, LR>>}
TestSplitCalls ==
    {<<Period(0, ValidationFold + 1, ValidationFold + 1, ValidationFold + 2), TRUE, -1>>,
     <<Period(1, ValidationFold + 2, ValidationFold + 2, ValidationFold + 4), TRUE, -1>>,
     <<Period(0, 2, 2, 3), TRUE, -1>>,
     <<Period(0, ValidationFold + 1, ValidationFold + 1, ValidationFold + 3), FALSE, 1>>}

InitTest == InitWith(MaxTestSplits, MaxAdds, MaxTests)

NextTest ==
    \/ \E ms \in ModelLists : AddModels(ms)
    \/ \E c \in TestSplitCalls : SplitTrainTest(c[1], None, c[2], c[3])
    \/ RollingStep
    \/ RollingReturn
    \/ \E names \in NameLists : TestModels(names)
    \/ TrainStep
    \/ TestFlatten

SpecTest == InitTest /\ [][NextTest]_vars

\* The inputs of __calcCR: same-length sequences of returns and of predictions.
ReturnValues == {<<0, 1>>, <<1, 100>>, <<-1, 50>>, <<3, 100>>}

InitCR ==
    /\ InitBacktester(0, 0, 0)
    /\ NoReports
    /\ \E n \in 0..MaxLen :
          \E rs \in [1..n -> ReturnValues], ps \in [1..n -> Labels] :
             cr = [mode |-> "args", returns |-> rs, predictions |-> ps]

NextCR == ApplyCR

SpecCR == InitCR /\ [][NextCR]_vars

\* The reporting scenario: a Backtester after addModels, one single split
\* whose test range holds n rows, and one completed testModels, which left
\* one label per test row in the model's predictions.
ReportReturns == {<<0, 1>>, <<1, 100>>, <<-1, 50>>}
ReportNames == {<<LR>>, <<Voting>>}

InitReport ==
    /\ pc = "idle"
    /\ split = NoFrame
    /\ err = "none"
    /\ callsLeft = 0
    /\ scaler = Unfit
    /\ scaled = NotScaled
    /\ tm = NoFrame
    /\ entry = NoFrame
    /\ addsLeft = 0
    /\ testsLeft = 0
    /\ report = NoFrame
    /\ reportsLeft = MaxReports
    /\ cr = NoFrame
    /\ \E n \in 1..MaxSpan :
          LET first == ValidationFold + 1
              rows == first..(first + n - 1)
          IN  /\ backtest_periods = <<Period(0, first, first, first + n)>>
              /\ y \in [rows -> Labels]
              /\ returns \in [rows -> ReportReturns]
              /\ \E a \in [1..n -> Labels] :
                    /\ models = [m \in {LR} |->
                                   [scaling |-> TRUE, estimator |-> "tuned",
                                    predictions |-> [j \in 1..n |-> Num(a[j])]]]
                    /\ history = [m \in {LR} |-> <<a>>]

NextReport == \E names \in ReportNames : CalcPerformanceMetrics(names)

SpecReport == InitReport /\ [][NextReport]_vars

\* ------------------------------------------------------------ claims
Appended == SubSeq(backtest_periods, split.base + 1, Len(backtest_periods))

\* Number of rolling periods that fit: the j >= 1 with train_end + j*window <= test_end.
Fits(f) ==
    LET room == f.test_end - (f.train_start + f.training_days)
    IN  IF room < f.window THEN 0 ELSE room \div f.window

ExpectedRolling(f) ==
    [j \in 1..Fits(f) |->
        LET i == f.train_start + (j - 1) * f.window
        IN  Period(i, i + f.training_days, i + f.training_days, i + f.training_days + f.window)]

RollingDone == pc = "rolling" /\ ~RollingCond(split)

\* C1: when a rolling split with train_start < train_end and window > 0 leaves
\* its loop, the periods it appended are exactly Train (i, i+L), Test
\* (i+L, i+L+window) for i = train_start, train_start+window, ... while
\* i+L+window <= test_end, in that order; every test range has length window,
\* none passes test_end, and the remainder left over is shorter than window.
C1_RollingPeriods ==
    (RollingDone /\ split.window > 0 /\ split.training_days > 0) =>
        /\ Appended = ExpectedRolling(split)
        /\ \A k \in 1..Len(Appended) :
              /\ Appended[k].Test[2] - Appended[k].Test[1] = split.window
              /\ Appended[k].Test[2] <= split.test_end
        /\ split.test_end - (split.train_start + split.training_days
                              + Len(Appended) * split.window) < split.window

\* Witness of C1: a finished rolling split that appended several periods and
\* dropped a non-empty remainder shorter than the window.
C1_Witness ==
    /\ RollingDone /\ split.window = 2 /\ split.training_days > 0
    /\ Len(Appended) >= 2
    /\ Appended[Len(Appended)].Test[2] < split.test_end

WellFormed(p) ==
    /\ p.Train[1] < p.Train[2]
    /\ p.Train[2] <= p.Test[1]
    /\ p.Test[1] < p.Test[2]

\* C2: every stored period has a non-empty train range and a non-empty test
\* range, the train range entirely before the test range.
C2_PeriodsWellFormed ==
    \A k \in 1..Len(backtest_periods) : WellFormed(backtest_periods[k])

RangeSet(r) == r[1]..(r[2] - 1)

TestUnion == UNION {RangeSet(backtest_periods[k].Test) : k \in 1..Len(backtest_periods)}

RECURSIVE SumTestLen(_)
SumTestLen(k) ==
    IF k = 0 THEN 0
    ELSE SumTestLen(k - 1) + Cardinality(RangeSet(backtest_periods[k].Test))

\* C3: after any sequence of completed splitTrainTest calls (here: of calls
\* that each stored well-formed periods) the stored periods are ordered by
\* time, their test ranges do not overlap, and the span
\* [first test start, last test end) of the reports is the union of the test
\* ranges, its length the sum of their lengths.
C3_SpanIsUnion ==
    (/\ pc = "idle" /\ Len(backtest_periods) > 0 /\ C2_PeriodsWellFormed) =>
        /\ \A k \in 1..Len(backtest_periods), l \in 1..Len(backtest_periods) :
              k < l => backtest_periods[k].Test[2] <= backtest_periods[l].Test[1]
        /\ RangeSet(ReportSpan) = TestUnion
        /\ Cardinality(RangeSet(ReportSpan)) = SumTestLen(Len(backtest_periods))

\* C10: a rolling split always leaves its loop.  The loop test compares
\* i + training_days + window with the fixed test_end, so the loop ends
\* exactly when every iteration it executes moves i forward.
C10_LoopAdvances ==
    [][(pc = "rolling" /\ pc' = "rolling") => split'.i > split.i]_vars

\* C4: whenever testModels has transformed the test rows of a period for a
\* model with scaling and trained the model on them, the scaler that
\* transformed them was fit on the period's training rows and on no test row.
C4_ScalerFitOnTrain ==
    (scaled.test_by # Unfit /\ err = "none") =>
        /\ scaled.test_by.fit = scaled.period.Train
        /\ RangeSet(scaled.test_by.fit) \cap RangeSet(scaled.period.Test) = {}

UnknownNamed(e) == \E k \in 1..Len(e.model_names) : e.model_names[k] \notin DOMAIN e.models

\* C7: a testModels call whose model_names holds an unregistered name ends
\* with an error, and at that point every registered model still has the
\* estimator and the predictions it had when the call began.
C7_UnknownFailsFirst ==
    [][(pc \in {"training", "flatten"} /\ pc' = "idle" /\ UnknownNamed(entry)) =>
          /\ err' # "none"
          /\ \A n \in DOMAIN entry.models :
                /\ models'[n].estimator = entry.models[n].estimator
                /\ models'[n].predictions = entry.models[n].predictions]_vars

RECURSIVE Concat(_)
Concat(arrays) == IF arrays = <<>> THEN <<>> ELSE Head(arrays) \o Concat(Tail(arrays))

Flat(items) == \A j \in 1..Len(items) : items[j].k = "num" /\ items[j].v \in Labels

\* C8: when a testModels call over registered names has trained every named
\* model on every period and ends, each named model's predictions is a flat
\* sequence of labels: the concatenation, in order, of the arrays its grid
\* searches returned (one label per test row of each period processed).
C8_PredictionsFlat ==
    [][(pc = "flatten" /\ pc' = "idle" /\ ~UnknownNamed(entry)) =>
          \A k \in 1..Len(entry.model_names) :
             LET n == entry.model_names[k]
             IN  /\ Flat(models'[n].predictions)
                 /\ [j \in 1..Len(models'[n].predictions) |-> models'[n].predictions[j].v]
                        = Concat(history'[n])]_vars

\* The product of 1 + r over the steps predicted +1, taken from the last step back.
RECURSIVE LongProduct(_, _, _)
LongProduct(rs, ps, k) ==
    IF k = 0 THEN QOne
    ELSE IF ps[k] = 1 THEN QMul(QAdd(QOne, rs[k]), LongProduct(rs, ps, k - 1))
    ELSE LongProduct(rs, ps, k - 1)

Without(seq, j) == [i \in 1..(Len(seq) - 1) |-> IF i < j THEN seq[i] ELSE seq[i + 1]]

\* C5: for same-length returns and predictions in {-1, +1}, __calcCR yields
\* n+1 values starting at 0 whose last is the product of 1 + r over the steps
\* predicted +1, minus 1; dropping any step predicted -1 leaves the last value
\* unchanged; all +1 gives the plain compounded product minus 1, all -1 gives 0.
C5_CumulativeReturn ==
    cr.mode = "done" =>
        LET rs == cr.returns
            ps == cr.predictions
            n == Len(rs)
        IN  /\ Len(cr.out) = n + 1
            /\ cr.out[1] = QZero
            /\ Last(cr.out) = QSub(LongProduct(rs, ps, n), QOne)
            /\ \A j \in 1..n :
                  ps[j] = -1 => Last(calcCR(Without(rs, j), Without(ps, j))) = Last(cr.out)
            /\ (\A j \in 1..n : ps[j] = 1) =>
                  Last(cr.out) = QSub(LongProduct(rs, [j \in 1..n |-> 1], n), QOne)
            /\ (\A j \in 1..n : ps[j] = -1) => Last(cr.out) = QZero

\* Witness of C5: a computed series over a sequence that mixes +1 and -1 steps
\* with non-zero returns on both.
C5_Witness ==
    /\ cr.mode = "done"
    /\ \E i \in 1..Len(cr.predictions), j \in 1..Len(cr.predictions) :
          /\ cr.predictions[i] = 1 /\ cr.returns[i] # QZero
          /\ cr.predictions[j] = -1 /\ cr.returns[j] # QZero
    /\ Last(cr.out) # QZero

SpanRows == ReportSpan[1]..(ReportSpan[2] - 1)

C9_PrecisionRecall ==
    report.mode = "tables" =>
        \A k \in 1..Len(report.names) :
           LET preds == PredictionValues(models[report.names[k]])
               ylab == Slice(y, ReportSpan[1], ReportSpan[2])
               hits == Cardinality({j \in 1..Len(preds) : preds[j] = 1 /\ ylab[j] = 1})
           IN  /\ report.errors[k].Precision = Ratio(hits, Pos(preds))
               /\ report.errors[k].Recall = Ratio(hits, Pos(ylab))

====
